---- MODULE Spec2Model ----
(***************************************************************************)
(* A model of financetool.py: the corpus projection engine, the           *)
(* retirement requirement solver, the allocation convergence solver and   *)
(* the main() pipeline that validates a profile and chains them.          *)
(*                                                                         *)
(* Amounts.  The program computes in Python floats.  The model holds an   *)
(* amount as a fixed-point number counted in 1/Scale of a currency unit.  *)
(* Amounts exceed 2^31, so an amount is a pair <<hi, lo>> that stands for *)
(* hi * Base + lo with 0 <= lo < Base (hi carries the sign).  Products     *)
(* and quotients are exact and then floored to 1/Scale, where the float   *)
(* rounds to 53 bits.                                                      *)
(***************************************************************************)
EXTENDS Integers, Sequences, FiniteSets, TLC

\* ------------------------------------------------------------------------
\* Amounts
\* ------------------------------------------------------------------------
\* an amount is counted in hundredths of a currency unit and held as two
\* limbs <<hi, lo>> of value hi * Base + lo, 0 <= lo < Base
Scale == 10 * 10
Base == 1000 * 1000

\* ------------------------------------------------------------------------
\* Amount arithmetic
\* ------------------------------------------------------------------------
Norm(hi, lo) == <<hi + (lo \div Base), lo % Base>>

Zero == <<0, 0>>

MAdd(a, b) ==
    <<a[1] + b[1] + ((a[2] + b[2]) \div Base), (a[2] + b[2]) % Base>>

MSub(a, b) ==
    <<a[1] - b[1] + ((a[2] - b[2]) \div Base), (a[2] - b[2]) % Base>>

MNeg(a) == <<(0 - a[1]) + ((0 - a[2]) \div Base), (0 - a[2]) % Base>>

MLt(a, b) == a[1] < b[1] \/ (a[1] = b[1] /\ a[2] < b[2])

MLe(a, b) == a = b \/ MLt(a, b)

MMin(a, b) == IF MLt(b, a) THEN b ELSE a

\* a * n for a small natural n
MMulI(a, n) == <<(a[1] * n) + ((a[2] * n) \div Base), (a[2] * n) % Base>>

\* floor(a / d) for a small positive d
MDivI(a, d) == <<a[1] \div d, (((a[1] % d) * Base) + a[2]) \div d>>

\* a mod d for a small positive d
MModI(a, d) == (((a[1] % d) * Base) + a[2]) % d

\* the amount of n whole currency units
M(n) ==
    <<((n \div Base) * Scale) + (((n % Base) * Scale) \div Base),
      ((n % Base) * Scale) % Base>>

\* SmallDivMod once the quotient estimate q0, its remainder r0 and the
\* correction k are known
Carry(d, q0, r0, k) == <<Norm(0, q0 + k), MSub(r0, MMulI(d, k))>>

CorrectedBy(d, q0, r0) ==
    Carry(d, q0, r0, CHOOSE j \in 0..7 : /\ MLe(MMulI(d, j), r0)
                                         /\ MLt(r0, MMulI(d, j + 1)))

Corrected(a, d, q0) == CorrectedBy(d, q0, MSub(a, MMulI(d, q0)))

\* <<q, r>> with a = q * d + r and 0 <= r < d, for d > 0 and 0 <= a < 2000 * d:
\* a quotient estimated on the leading digits, then corrected
SmallDivMod(a, d) ==
    IF d[1] = 0
    THEN <<Norm(0, ((a[1] * Base) + a[2]) \div d[2]),
           Norm(0, ((a[1] * Base) + a[2]) % d[2])>>
    ELSE Corrected(a, d,
                   IF d[1] < 1000
                   THEN ((a[1] * 1000) + (a[2] \div 1000))
                            \div ((d[1] * 1000) + (d[2] \div 1000) + 1)
                   ELSE a[1] \div (d[1] + 1))

\* the digits of n >= 0 in base 1000, the most significant first
Digits(n) ==
    <<n[1] \div (1000 * Base), (n[1] \div Base) % 1000,
      (n[1] \div 1000) % 1000, n[1] % 1000,
      n[2] \div 1000, n[2] % 1000>>

MulDivCarry(i, q2, s) == [i |-> i, q |-> MAdd(q2, s[1]), r |-> s[2]]

\* the step of MulDivLoop for the digit dg: st.q and st.r are the quotient
\* and the remainder for the digits before it
MulDivDigit(st, dg, qa, ra, d) ==
    IF st.q = Zero /\ st.r = Zero /\ dg = 0
    THEN [i |-> st.i + 1, q |-> Zero, r |-> Zero]
    ELSE MulDivCarry(st.i + 1,
                     MAdd(MMulI(st.q, 1000), MMulI(qa, dg)),
                     SmallDivMod(MAdd(MMulI(st.r, 1000), MMulI(ra, dg)), d))

\* <<q, r>> with n * (qa * d + ra) = q * d + r and 0 <= r < d, n being given
\* by its digits g; st.i is the digit to consume next
RECURSIVE MulDivLoop(_, _, _, _, _)
MulDivLoop(st, g, qa, ra, d) ==
    IF st.i > Len(g) THEN <<st.q, st.r>>
    ELSE MulDivLoop(MulDivDigit(st, g[st.i], qa, ra, d), g, qa, ra, d)

MulDivFrom(n, ad, d) ==
    MulDivLoop([i |-> 1, q |-> Zero, r |-> Zero], Digits(n), ad[1], ad[2], d)

\* <<q, r>> with a = q * d + r and 0 <= r < d, for a >= 0 and d > 0
MDivMod(a, d) ==
    IF MLt(a, d) THEN <<Zero, a>>
    ELSE IF d = Norm(0, 1) THEN <<a, Zero>>
    ELSE MulDivFrom(a, <<Zero, Norm(0, 1)>>, d)

\* <<q, r>> with a * n = q * d + r and 0 <= r < d, for a, n >= 0 and d > 0
MMulDivMod(a, n, d) ==
    IF a = Zero \/ n = Zero THEN <<Zero, Zero>>
    ELSE IF a = d THEN <<n, Zero>>
    ELSE MulDivFrom(n, MDivMod(a, d), d)

MAbs(a) == IF MLt(a, Zero) THEN MNeg(a) ELSE a

\* the floor of a quotient of magnitude s[1] and remainder s[2], positive or
\* negative
Floored(positive, s) ==
    IF positive THEN s[1]
    ELSE IF s[2] = Zero THEN MNeg(s[1])
    ELSE MSub(MNeg(s[1]), Norm(0, 1))

\* floor(a * n / d) for d > 0 and a, n of either sign
MMulDiv(a, n, d) ==
    Floored(MLt(a, Zero) = MLt(n, Zero), MMulDivMod(MAbs(a), MAbs(n), d))

\* x * pct / 100 to the nearest 1/Scale
MPct(x, pct) ==
    Norm((x[1] * pct) \div 100,
         ((((x[1] * pct) % 100) * Base) + (x[2] * pct) + 50) \div 100)

\* x * (1 + pct/100): the float product x * (1 + rate)
Grow(x, pct) == MPct(x, 100 + pct)

\* ------------------------------------------------------------------------
\* State
\* ------------------------------------------------------------------------
VARIABLES
    \* calculate_retirement_plan stepped one loop iteration at a time
    plan_cfg,     \* the FinancialConfig of the projection being stepped
    plan_args,    \* the arguments of the call
    plan,         \* the locals of the call inside its loop
    \* main(data)
    pc,           \* where main() is
    data,         \* the dict handed to main
    inputs,       \* the FinancialInputs built from it
    config,       \* FinancialConfig(inputs)
    result,       \* what main returns
    \* determine_retirement_investment
    initial_investment,   \* the trial contribution
    iterations,           \* loop iterations started so far
    solver_df,            \* the DataFrame it returns
    required_monthly_investment,
    \* main, after the solver
    final_retirement_corpus,
    years_to_retirement,
    retirement_df,
    \* calculate_investment_allocation
    alloc_args,           \* monthly_investment and target_corpus
    iteration,            \* passes started so far
    investment_multiplier,
    alloc_data,           \* data of the last pass
    monthly_investments,  \* monthly_investments of the last pass
    \* the goal loop of main
    goal_dfs,
    goal_monthly_investments,
    summary,              \* the amounts create_summary_sheet computes
    \* observers: how often each engine has been started
    plan_runs,
    goal_runs,
    \* calculate_flat_monthly_investment stepped one halving at a time
    flat          \* the locals of the call inside its binary search

planVars   == <<plan_cfg, plan_args, plan>>
inputVars  == <<data, inputs, config>>
solverVars == <<initial_investment, iterations, solver_df,
                required_monthly_investment>>
rerunVars  == <<final_retirement_corpus, years_to_retirement, retirement_df>>
allocVars  == <<alloc_args, iteration, investment_multiplier, alloc_data,
                monthly_investments>>
goalVars   == <<goal_dfs, goal_monthly_investments>>

vars == <<planVars, pc, inputVars, result, solverVars, rerunVars, allocVars,
          goalVars, summary, plan_runs, goal_runs, flat>>

\* a missing cell of a row (None / NaN)
None == <<>>

\* ------------------------------------------------------------------------
\* FinancialConfig: the fixed scenario rates, in percent
\* ------------------------------------------------------------------------
\* an inflation of seven percent
expense_inflation_rate_high == 6 + 1
expense_inflation_rate == 6
investment_step_up_rate == 5
rate_of_return == 12
post_retirement_rate_of_return == 6
PF_INTEREST_RATE == 8
\* a pre-existing bucket that loses six percent a year
CURRENT_INTEREST_RATE_negative == 0 - 6
CURRENT_INTEREST_RATE == 6

\* FinancialConfig.__init__ for the fields the engine reads; the ages and
\* the expense are whole numbers, the expense becomes an amount
FinancialConfig(inp) ==
    [initial_age             |-> inp.initial_age,
     retirement_age          |-> inp.retirement_age,
     life_expectancy         |-> inp.life_expectancy,
     initial_monthly_expense |-> M(inp.initial_monthly_expense),
     initial_annual_expense  |-> MMulI(M(inp.initial_monthly_expense), 12)]

\* ------------------------------------------------------------------------
\* FinancialPlanner.round_currency: Decimal quantize to whole units with
\* ROUND_HALF_UP (a half goes away from zero)
\* ------------------------------------------------------------------------
RoundHalfUpMagnitude(a) ==
    MMulI(MDivI(MAdd(a, Norm(0, Scale \div 2)), Scale), Scale)

round_currency(amount) ==
    IF MLt(amount, Zero) THEN MNeg(RoundHalfUpMagnitude(MNeg(amount)))
    ELSE RoundHalfUpMagnitude(amount)

\* ------------------------------------------------------------------------
\* FinancialPlanner.calculate_retirement_plan
\* ------------------------------------------------------------------------
\* the locals before the loop
PlanStart(cfg, args) ==
    [age            |-> cfg.initial_age,
     monthly_exp    |-> cfg.initial_monthly_expense,
     annual_exp     |-> cfg.initial_annual_expense,
     investment     |-> args.initial_investment,
     salary_corpus  |-> Zero,
     pf_corpus      |-> args.initial_pf_corpus,
     current_corpus |-> args.initial_current_corpus,
     data           |-> <<>>]

\* the buckets and the row of an iteration in the accumulation branch
AccumulationRow(st, salary, pf, current) ==
    [salary_corpus |-> salary, pf_corpus |-> pf, current_corpus |-> current,
     row |-> [Age |-> st.age,
              MonthlyExpense    |-> round_currency(st.monthly_exp),
              AnnualExpense     |-> round_currency(st.annual_exp),
              MonthlyInvestment |-> round_currency(st.investment),
              AnnualInvestment  |-> round_currency(MMulI(st.investment, 12)),
              SalaryCorpus  |-> round_currency(salary),
              PFCorpus      |-> round_currency(pf),
              CurrentCorpus |-> round_currency(current),
              TotalCorpus   |-> round_currency(MAdd(MAdd(salary, pf), current)),
              RetirementYearEndCorpus |-> None]]

\* the accumulation branch of one loop iteration (age <= retirement_age)
PlanAccumulate(cfg, args, st) ==
    AccumulationRow(st,
        Grow(MAdd(st.salary_corpus, MMulI(st.investment, 12)), rate_of_return),
        Grow(MAdd(st.pf_corpus, MMulI(args.monthly_pf_contribution, 12)),
             PF_INTEREST_RATE),
        Grow(st.current_corpus, CURRENT_INTEREST_RATE))

\* a withdrawal that takes a third of the expense from each bucket
WithdrawEvenly(bucket, annual_exp, total_corpus) ==
    MSub(bucket, MDivI(annual_exp, 3))

\* bucket * (1 - annual_exp / total_corpus)
Withdraw(bucket, annual_exp, total_corpus) ==
    MMulDiv(bucket, MSub(total_corpus, annual_exp), total_corpus)

\* the buckets and the row of an iteration in the decumulation branch
DecumulationRow(st, salary, pf, current) ==
    [salary_corpus |-> salary, pf_corpus |-> pf, current_corpus |-> current,
     row |-> [Age |-> st.age,
              MonthlyExpense    |-> round_currency(st.monthly_exp),
              AnnualExpense     |-> round_currency(st.annual_exp),
              MonthlyInvestment |-> None,
              AnnualInvestment  |-> None,
              SalaryCorpus  |-> None,
              PFCorpus      |-> None,
              CurrentCorpus |-> None,
              TotalCorpus   |-> None,
              RetirementYearEndCorpus |->
                  round_currency(MAdd(MAdd(salary, pf), current))]]

\* the withdrawal, made only "if total_corpus > 0", and the year's growth
Decumulate(st, total_corpus) ==
    IF MLt(Zero, total_corpus)
    THEN DecumulationRow(st,
             Grow(Withdraw(st.salary_corpus, st.annual_exp, total_corpus),
                  post_retirement_rate_of_return),
             Grow(Withdraw(st.pf_corpus, st.annual_exp, total_corpus),
                  post_retirement_rate_of_return),
             Grow(Withdraw(st.current_corpus, st.annual_exp, total_corpus),
                  post_retirement_rate_of_return))
    ELSE DecumulationRow(st,
             Grow(st.salary_corpus, post_retirement_rate_of_return),
             Grow(st.pf_corpus, post_retirement_rate_of_return),
             Grow(st.current_corpus, post_retirement_rate_of_return))

\* the decumulation branch of one loop iteration (age > retirement_age)
PlanDecumulate(cfg, args, st) ==
    Decumulate(st, MAdd(MAdd(st.salary_corpus, st.pf_corpus),
                        st.current_corpus))

\* the locals after an iteration whose branch gave b; me is the inflated
\* monthly expense
PlanAdvance(cfg, st, b, me) ==
    [age            |-> st.age + 1,
     monthly_exp    |-> me,
     annual_exp     |-> MMulI(me, 12),
     investment     |-> IF st.age < cfg.retirement_age
                        THEN Grow(st.investment, investment_step_up_rate)
                        ELSE st.investment,
     salary_corpus  |-> b.salary_corpus,
     pf_corpus      |-> b.pf_corpus,
     current_corpus |-> b.current_corpus,
     data           |-> Append(st.data, b.row)]

\* an iteration that takes the retirement year for a decumulation year
PlanStepRetiredEarly(cfg, args, st) ==
    PlanAdvance(cfg, st,
                IF st.age < cfg.retirement_age
                THEN PlanAccumulate(cfg, args, st)
                ELSE PlanDecumulate(cfg, args, st),
                Grow(st.monthly_exp, expense_inflation_rate))

\* one iteration of "for age in ages"
PlanStep(cfg, args, st) ==
    PlanAdvance(cfg, st,
                IF st.age <= cfg.retirement_age
                THEN PlanAccumulate(cfg, args, st)
                ELSE PlanDecumulate(cfg, args, st),
                Grow(st.monthly_exp, expense_inflation_rate))

RECURSIVE PlanLoop(_, _, _)
PlanLoop(cfg, args, st) ==
    IF st.age > cfg.life_expectancy THEN st.data
    ELSE PlanLoop(cfg, args, PlanStep(cfg, args, st))

PlanArgs(investment0, pf_corpus0, pf_contribution, current_corpus0) ==
    [initial_investment      |-> investment0,
     initial_pf_corpus       |-> pf_corpus0,
     monthly_pf_contribution |-> pf_contribution,
     initial_current_corpus  |-> current_corpus0]

\* the DataFrame the call returns, as the sequence of its rows
PlanRun(cfg, args) == PlanLoop(cfg, args, PlanStart(cfg, args))

calculate_retirement_plan(cfg, investment0, pf_corpus0, pf_contribution, current_corpus0) ==
    PlanRun(cfg, PlanArgs(investment0, pf_corpus0, pf_contribution,
                          current_corpus0))

\* 'Retirement Year-End Corpus (Rs)'.iloc[-1]
LastYearEndCorpus(df) == df[Len(df)].RetirementYearEndCorpus

\* ------------------------------------------------------------------------
\* The projection engine on its own: one action per loop iteration
\* ------------------------------------------------------------------------
\* the longest span of ages of a projection
PlanSpan == 3

PlanAges == (79 - PlanSpan) .. 79
PlanLifeExpectancies == {79, 80}
PlanExpenses == {12000, 20000}
PlanInvestments == {0, 5000, 6000, 15000}
PlanBalances == {0, 50000}
PlanPFContributions == {0, 2000}

PlanProfiles ==
    {c \in [initial_age : PlanAges, retirement_age : PlanAges,
            life_expectancy : PlanLifeExpectancies,
            initial_monthly_expense : PlanExpenses] :
        c.initial_age < c.retirement_age
        /\ c.retirement_age < c.life_expectancy}

\* the variables of main() and of the solvers while they are not running
Idle ==
    /\ pc = "idle"
    /\ data = None /\ inputs = None /\ config = None /\ result = None
    /\ initial_investment = None /\ iterations = 0 /\ solver_df = None
    /\ required_monthly_investment = None
    /\ final_retirement_corpus = None /\ years_to_retirement = None
    /\ retirement_df = None
    /\ alloc_args = None /\ iteration = 0 /\ investment_multiplier = None
    /\ alloc_data = None /\ monthly_investments = None
    /\ goal_dfs = <<>> /\ goal_monthly_investments = <<>> /\ summary = None
    /\ plan_runs = 0 /\ goal_runs = 0

PlanInit ==
    /\ \E c \in PlanProfiles : plan_cfg = FinancialConfig(c)
    /\ \E i \in PlanInvestments, b \in PlanBalances, k \in PlanBalances,
          m \in PlanPFContributions :
          plan_args = PlanArgs(M(i), M(b), M(m), M(k))
    /\ plan = PlanStart(plan_cfg, plan_args)
    /\ flat = None
    /\ Idle

\* one iteration of the loop of calculate_retirement_plan
PlanYear ==
    /\ plan # None
    /\ plan.age <= plan_cfg.life_expectancy
    /\ plan' = PlanStep(plan_cfg, plan_args, plan)
    /\ UNCHANGED <<plan_cfg, plan_args, flat, pc, inputVars, result, solverVars,
                   rerunVars, allocVars, goalVars, summary, plan_runs, goal_runs>>

PlanNext == PlanYear

SpecPlan == PlanInit /\ [][PlanNext]_vars

\* ------------------------------------------------------------------------
\* FinancialInputs and get_user_inputs_from_dict
\* ------------------------------------------------------------------------
NoError == ""

\* FinancialInputs.validate: the message of the ValueError it raises, or NoError
validate(inp) ==
    IF inp.initial_age >= inp.retirement_age
    THEN "Current age must be less than retirement age"
    ELSE IF inp.initial_age < 18
    THEN "Current age must be at least 18"
    ELSE IF inp.retirement_age >= inp.life_expectancy
    THEN "Retirement age must be less than life expectancy"
    ELSE IF inp.initial_monthly_expense <= 0
    THEN "Monthly expenses must be greater than 0"
    ELSE IF inp.monthly_emi < 0
    THEN "Monthly EMI cannot be negative"
    ELSE IF inp.monthly_in_hand <= 0
    THEN "Monthly in-hand salary must be greater than 0"
    ELSE IF inp.initial_pf_corpus < 0
    THEN "PF corpus cannot be negative"
    ELSE IF inp.monthly_pf_contribution < 0
    THEN "Monthly PF contribution cannot be negative"
    ELSE IF inp.monthly_pf_contribution > inp.monthly_in_hand
    THEN "Monthly PF contribution cannot be greater than monthly in-hand salary"
    ELSE IF inp.initial_current_corpus < 0
    THEN "Current corpus cannot be negative"
    ELSE IF Len(inp.goals) > 10
    THEN "Maximum 10 goals are allowed"
    ELSE IF inp.initial_monthly_expense + inp.monthly_emi > inp.monthly_in_hand
    THEN "Total monthly outflow (expenses + EMI) cannot exceed monthly income"
    ELSE NoError

\* the FinancialInputs object filled from the dict; life_expectancy keeps the
\* value FinancialInputs.__init__ gives it
default_life_expectancy == 80

InputsFromDict(d) ==
    [initial_age             |-> d.initial_age,
     retirement_age          |-> d.retirement_age,
     life_expectancy         |-> default_life_expectancy,
     initial_monthly_expense |-> d.monthly_expenses,
     monthly_emi             |-> d.monthly_emi,
     monthly_in_hand         |-> d.monthly_in_hand,
     initial_pf_corpus       |-> d.initial_pf_corpus,
     monthly_pf_contribution |-> d.monthly_pf_contribution,
     initial_current_corpus  |-> d.initial_current_corpus,
     goals                   |-> d.goals]

\* the inputs once validate() has answered
Validated(inp, error) ==
    IF error # NoError THEN [inputs |-> None, error |-> error]
    ELSE [inputs |-> inp, error |-> NoError]

\* a reading of the dict that leaves the count of the goals unchecked
get_user_inputs_uncounted(d) ==
    Validated(InputsFromDict(d), validate(InputsFromDict(d)))

\* get_user_inputs_from_dict: the inputs it returns, or the error it raises
get_user_inputs_from_dict(d) ==
    IF ~(1 <= Len(d.goals) /\ Len(d.goals) <= 10)
    THEN [inputs |-> None,
          error  |-> "Invalid input: Number of goals must be between 1 and 10"]
    ELSE Validated(InputsFromDict(d), validate(InputsFromDict(d)))

\* ------------------------------------------------------------------------
\* The dicts main() is started with
\* ------------------------------------------------------------------------
Goal(amount, years) == [amount |-> amount, years |-> years]

\* the longest span from the current age to the age of 79
DataSpan == 2

DataAges == {17} \cup ((79 - DataSpan) .. 78)
DataRetirementAges == {78, 79, 80}
DataExpenses == {0, 12000}
DataIncomes == {0, 13000, 150000}
DataEMIs == {-1, 0, 2000}
DataPFCorpus == {-1, 0, 50000}
DataPFContributions == {-1, 2000, 200000}
DataCurrentCorpus == {-1, 100000}
DataGoals ==
    {<<>>,
     <<Goal(100000, 3)>>,
     <<Goal(100000, 0)>>,
     <<Goal(100000, -1)>>,
     <<Goal(0, 2)>>,
     <<Goal(-100000, 2)>>,
     <<Goal(500000, 6), Goal(100000, 4)>>,
     [i \in 1..11 |-> Goal(100000, 3)]}

Dict(ia, ra, e, inc, emi, pf, pfc, cur, goals) ==
    [initial_age |-> ia, retirement_age |-> ra, monthly_expenses |-> e,
     monthly_in_hand |-> inc, monthly_emi |-> emi, initial_pf_corpus |-> pf,
     monthly_pf_contribution |-> pfc, initial_current_corpus |-> cur,
     goals |-> goals]

\* a profile whose expense no trial contribution can carry
UnaffordableDict ==
    Dict(78, 79, 220000000, 250000000, 0, 0, 0, 0, <<Goal(100000, 3)>>)

Dicts ==
    {UnaffordableDict} \cup
    {Dict(ia, ra, e, inc, emi, pf, pfc, cur, goals) :
        ia \in DataAges, ra \in DataRetirementAges, e \in DataExpenses,
        inc \in DataIncomes, emi \in DataEMIs, pf \in DataPFCorpus,
        pfc \in DataPFContributions, cur \in DataCurrentCorpus,
        goals \in DataGoals}

\* ------------------------------------------------------------------------
\* FinancialPlanner.determine_retirement_investment
\* ------------------------------------------------------------------------
\* a loop that starts one step late, one that steps twice as far, and one
\* that gives up after a thousand trials
first_trial_late == 5000 + 1000
trial_increment_doubled == 2 * 1000
max_iterations_short == 10 * 100

first_trial == 5000
trial_increment == 1000
max_iterations == 100000
min_final_corpus == 100000

\* the index of a DataFrame's last row
last_index(df) == Len(df)

\* a DataFrame's 'Total Corpus (Rs)'.last_valid_index(), 0 if there is none
RECURSIVE LastValid(_, _)
LastValid(df, i) ==
    IF i = 0 THEN 0
    ELSE IF df[i].TotalCorpus # None THEN i
    ELSE LastValid(df, i - 1)

last_valid_index(df) == LastValid(df, Len(df))

\* ------------------------------------------------------------------------
\* FinancialPlanner.calculate_investment_allocation
\* ------------------------------------------------------------------------
Assets == {"Equity", "Gold", "RealEstate", "Debt"}

\* config.returns, in percent
returns == [Equity |-> 16, Gold |-> 13, RealEstate |-> 8, Debt |-> 8]

\* the weights, in percent
\* a policy whose oldest bracket holds five points of Debt too many
get_age_based_allocation_heavy(age) ==
    IF age <= 25
    THEN [Equity |-> 65, Gold |-> 20, RealEstate |-> 10, Debt |-> 5]
    ELSE IF age <= 30
    THEN [Equity |-> 60, Gold |-> 20, RealEstate |-> 15, Debt |-> 5]
    ELSE IF age <= 35
    THEN [Equity |-> 55, Gold |-> 20, RealEstate |-> 15, Debt |-> 10]
    ELSE IF age <= 45
    THEN [Equity |-> 50, Gold |-> 20, RealEstate |-> 20, Debt |-> 10]
    ELSE IF age <= 50
    THEN [Equity |-> 40, Gold |-> 25, RealEstate |-> 25, Debt |-> 10]
    ELSE [Equity |-> 35, Gold |-> 30, RealEstate |-> 25, Debt |-> 15]

get_age_based_allocation(age) ==
    IF age <= 25
    THEN [Equity |-> 65, Gold |-> 20, RealEstate |-> 10, Debt |-> 5]
    ELSE IF age <= 30
    THEN [Equity |-> 60, Gold |-> 20, RealEstate |-> 15, Debt |-> 5]
    ELSE IF age <= 35
    THEN [Equity |-> 55, Gold |-> 20, RealEstate |-> 15, Debt |-> 10]
    ELSE IF age <= 45
    THEN [Equity |-> 50, Gold |-> 20, RealEstate |-> 20, Debt |-> 10]
    ELSE IF age <= 50
    THEN [Equity |-> 40, Gold |-> 25, RealEstate |-> 25, Debt |-> 10]
    ELSE [Equity |-> 35, Gold |-> 30, RealEstate |-> 25, Debt |-> 10]

\* a pass loop that is given ten passes more
MAX_ITERATIONS_extended == 50 + 10

MAX_ITERATIONS == 50

\* the investment multiplier is a number of millionths: One is 1.0
One == Norm(1, 0)

\* percentages rounded to two places are numbers of hundredths of a percent
progress_low  == Norm(0, 9990)
progress_high == Norm(0, 10010)

\* math.ceil(x / 500) * 500
\* rounding to the nearest multiple of 500 instead of up to the next one
NearestTo500(x) == MMulI(MMulI(MDivI(MAdd(MDivI(x, Scale), Norm(0, 250)), 500), 500), Scale)

CeilTo500(x) ==
    MMulI(MMulI(MDivI(MAdd(MDivI(MAdd(x, Norm(0, Scale - 1)), Scale),
                           Norm(0, 499)), 500), 500), Scale)

WithSign(positive, magnitude) ==
    IF positive THEN magnitude ELSE MNeg(magnitude)

\* the quotient s[1] with remainder s[2] over den, to the nearest, a tie to
\* the even one
HalfEven(den, s) ==
    IF \/ MLt(den, MMulI(s[2], 2))
       \/ (MMulI(s[2], 2) = den /\ MModI(s[1], 2) = 1)
    THEN MAdd(s[1], Norm(0, 1))
    ELSE s[1]

\* round(num / den * 100, 2) in hundredths of a percent, for den # 0
PercentOf(num, den) ==
    WithSign(MLt(num, Zero) = MLt(den, Zero),
             HalfEven(MAbs(den),
                      MMulDivMod(MAbs(num), Norm(0, 10000), MAbs(den))))

\* round_currency(prev_total_investment * alloc * returns[asset])
AssetReturn(prev_total_investment, alloc, ret) ==
    round_currency(MDivI(MDivI(MAdd(MMulI(prev_total_investment, alloc * ret),
                                    Norm(0, 5000)), 100), 100))

\* the locals of a pass before its age loop
AllocationStart(cfg, monthly_investment, multiplier) ==
    [age                        |-> cfg.initial_age,
     current_monthly_investment |-> MMulDiv(monthly_investment, multiplier, One),
     prev_total_investment      |-> Zero,
     data                       |-> <<>>,
     monthly_investments        |-> <<>>]

\* the locals after an iteration of the age loop, and its row
AllocationAdvance(total_target_corpus, st, current_monthly_investment, yearly_investment, allocations, asset_returns, total_return, accumulated_amount) ==
    [age                        |-> st.age + 1,
     current_monthly_investment |->
         Grow(current_monthly_investment, investment_step_up_rate),
     prev_total_investment      |-> accumulated_amount,
     data                       |->
         Append(st.data,
             [Age               |-> st.age,
              MonthlyInvestment |-> round_currency(current_monthly_investment),
              YearlyInvestment  |-> yearly_investment,
              Allocation        |-> allocations,
              Investment        |->
                  [a \in Assets |-> round_currency(MPct(yearly_investment,
                                                        allocations[a]))],
              Return            |-> asset_returns,
              TotalReturnPct    |->
                  IF MLt(Zero, st.prev_total_investment)
                  THEN PercentOf(total_return, st.prev_total_investment)
                  ELSE Zero,
              Accumulated       |-> round_currency(accumulated_amount),
              TargetCorpus      |-> round_currency(total_target_corpus),
              CorpusProgress    |->
                  PercentOf(accumulated_amount, total_target_corpus)]),
     monthly_investments        |->
         Append(st.monthly_investments,
                round_currency(current_monthly_investment))]

\* an accumulation that is not held at the target
AllocationAccumulateUnclamped(total_target_corpus, st, current_monthly_investment, yearly_investment, allocations, asset_returns, total_return) ==
    AllocationAdvance(total_target_corpus, st, current_monthly_investment,
                      yearly_investment, allocations, asset_returns,
                      total_return,
                      MAdd(MAdd(st.prev_total_investment, total_return),
                           yearly_investment))

\* accumulated_amount = min(prev + total_return + yearly, total_target_corpus)
AllocationAccumulate(total_target_corpus, st, current_monthly_investment, yearly_investment, allocations, asset_returns, total_return) ==
    AllocationAdvance(total_target_corpus, st, current_monthly_investment,
                      yearly_investment, allocations, asset_returns,
                      total_return,
                      MMin(MAdd(MAdd(st.prev_total_investment, total_return),
                                yearly_investment),
                           total_target_corpus))

\* total_return = sum(returns.values())
AllocationReturns(total_target_corpus, st, current_monthly_investment, allocations, asset_returns) ==
    AllocationAccumulate(total_target_corpus, st, current_monthly_investment,
        round_currency(MMulI(current_monthly_investment, 12)),
        allocations, asset_returns,
        MAdd(MAdd(asset_returns["Equity"], asset_returns["Gold"]),
             MAdd(asset_returns["RealEstate"], asset_returns["Debt"])))

\* the returns of the year, earned on prev_total_investment
AllocationInvest(total_target_corpus, st, current_monthly_investment, allocations) ==
    AllocationReturns(total_target_corpus, st, current_monthly_investment,
        allocations,
        [a \in Assets |-> AssetReturn(st.prev_total_investment,
                                      allocations[a], returns[a])])

\* one iteration of the age loop of a pass
AllocationYear(cfg, total_target_corpus, st) ==
    AllocationInvest(total_target_corpus, st,
                     CeilTo500(st.current_monthly_investment),
                     get_age_based_allocation(st.age))

RECURSIVE AllocationLoop(_, _, _)
AllocationLoop(cfg, total_target_corpus, st) ==
    IF st.age > cfg.retirement_age THEN st
    ELSE AllocationLoop(cfg, total_target_corpus,
                        AllocationYear(cfg, total_target_corpus, st))

\* one pass: its data and its monthly_investments
AllocationPass(cfg, monthly_investment, target_corpus, multiplier) ==
    AllocationLoop(cfg, target_corpus,
                   AllocationStart(cfg, monthly_investment, multiplier))

\* ------------------------------------------------------------------------
\* FinancialPlanner.get_goal_allocation and calculate_goal_investment
\* ------------------------------------------------------------------------
GoalAssets == {"Equity", "Gold", "Debt"}

\* config.get_goal_return, in percent
get_goal_return(years) ==
    IF years <= 3 THEN 8 ELSE IF years <= 5 THEN 10 ELSE 14

\* a policy that gives only the horizons below three years to Debt
get_goal_allocation_below(age, years) ==
    IF years < 3 THEN [Equity |-> 0, Gold |-> 0, Debt |-> 100]
    ELSE IF years <= 5
    THEN IF age <= 35 THEN [Equity |-> 60, Gold |-> 0, Debt |-> 40]
         ELSE [Equity |-> 50, Gold |-> 0, Debt |-> 50]
    ELSE IF age <= 35 THEN [Equity |-> 70, Gold |-> 10, Debt |-> 20]
    ELSE IF age <= 50 THEN [Equity |-> 50, Gold |-> 30, Debt |-> 20]
    ELSE [Equity |-> 20, Gold |-> 50, Debt |-> 30]

\* the weights, in percent
get_goal_allocation(age, years) ==
    IF years <= 3 THEN [Equity |-> 0, Gold |-> 0, Debt |-> 100]
    ELSE IF years <= 5
    THEN IF age <= 35 THEN [Equity |-> 60, Gold |-> 0, Debt |-> 40]
         ELSE [Equity |-> 50, Gold |-> 0, Debt |-> 50]
    ELSE IF age <= 35 THEN [Equity |-> 70, Gold |-> 10, Debt |-> 20]
    ELSE IF age <= 50 THEN [Equity |-> 50, Gold |-> 30, Debt |-> 20]
    ELSE [Equity |-> 20, Gold |-> 50, Debt |-> 30]

\* (1 + pct/100) ** years for years >= 0, in millionths
RECURSIVE PowerLoop(_, _)
PowerLoop(st, pct) ==
    IF st.years <= 0 THEN st.acc
    ELSE PowerLoop([acc |-> MPct(st.acc, 100 + pct), years |-> st.years - 1],
                   pct)

Power(pct, years) == PowerLoop([acc |-> One, years |-> years], pct)

\* the locals before the loop
GoalLocals(cfg, initial_yearly_investment) ==
    [age                        |-> cfg.initial_age,
     current_yearly_investment  |-> initial_yearly_investment,
     current_monthly_investment |-> MDivI(initial_yearly_investment, 12),
     accumulated_investment     |-> Zero,
     prev_total_investment      |-> Zero,
     data                       |-> <<>>]

\* target_amount * target_return / (compound_factor - 1), for years > 0
GoalStart(cfg, years, target_amount) ==
    GoalLocals(cfg,
        MMulDiv(target_amount, Norm(0, get_goal_return(years) * 10000),
                MSub(Power(get_goal_return(years), years), One)))

\* the locals after an iteration of the loop, and its row; the step sets
\* prev_total_investment to the accumulated_investment it started from
GoalAdvance(target_amount, st, allocation, current_monthly_investment, current_yearly_investment, asset_returns, total_return, accumulated_investment) ==
    [age                        |-> st.age + 1,
     current_yearly_investment  |-> current_yearly_investment,
     current_monthly_investment |-> current_monthly_investment,
     accumulated_investment     |-> accumulated_investment,
     prev_total_investment      |-> st.accumulated_investment,
     data                       |->
         Append(st.data,
             [Age               |-> st.age,
              MonthlyInvestment |-> round_currency(current_monthly_investment),
              YearlyInvestment  |-> round_currency(current_yearly_investment),
              Allocation        |-> allocation,
              Investment        |->
                  [a \in GoalAssets |->
                      round_currency(MPct(current_yearly_investment,
                                          allocation[a]))],
              Return            |-> asset_returns,
              TotalReturnPct    |->
                  IF MLt(Zero, st.prev_total_investment)
                  THEN PercentOf(total_return, st.prev_total_investment)
                  ELSE Zero,
              Accumulated       |-> round_currency(accumulated_investment),
              TargetCorpus      |-> round_currency(target_amount),
              CorpusProgress    |->
                  PercentOf(accumulated_investment, target_amount)])]

\* an accumulation held at the target, as the allocation solver's is
GoalAccumulateClamped(target_amount, st, allocation, current_monthly_investment, current_yearly_investment, asset_returns, total_return) ==
    GoalAdvance(target_amount, st, allocation, current_monthly_investment,
                current_yearly_investment, asset_returns, total_return,
                MMin(MAdd(st.accumulated_investment,
                          MAdd(current_yearly_investment, total_return)),
                     target_amount))

\* accumulated_investment += current_yearly_investment + total_return
GoalAccumulate(target_amount, st, allocation, current_monthly_investment, current_yearly_investment, asset_returns, total_return) ==
    GoalAdvance(target_amount, st, allocation, current_monthly_investment,
                current_yearly_investment, asset_returns, total_return,
                MAdd(st.accumulated_investment,
                     MAdd(current_yearly_investment, total_return)))

\* total_return = sum(returns.values())
GoalReturns(target_amount, st, allocation, current_monthly_investment, asset_returns) ==
    GoalAccumulate(target_amount, st, allocation, current_monthly_investment,
                   MMulI(current_monthly_investment, 12), asset_returns,
                   MAdd(MAdd(asset_returns["Equity"], asset_returns["Gold"]),
                        asset_returns["Debt"]))

\* the returns of the year, earned on prev_total_investment if it is positive
GoalInvest(target_amount, st, allocation, current_monthly_investment) ==
    GoalReturns(target_amount, st, allocation, current_monthly_investment,
        [a \in GoalAssets |->
            IF MLt(Zero, st.prev_total_investment)
            THEN AssetReturn(st.prev_total_investment, allocation[a],
                             returns[a])
            ELSE Zero])

\* one iteration of the loop, for target_amount # 0: after the first year the
\* yearly amount is stepped up and the monthly amount derived from it
GoalYear(cfg, years, target_amount, st) ==
    GoalInvest(target_amount, st, get_goal_allocation(st.age, years),
        CeilTo500(IF st.age > cfg.initial_age
                  THEN MDivI(Grow(st.current_yearly_investment,
                                  investment_step_up_rate), 12)
                  ELSE st.current_monthly_investment))

RECURSIVE GoalLoop(_, _, _, _)
GoalLoop(cfg, years, target_amount, st) ==
    IF st.age >= cfg.initial_age + years THEN st.data
    ELSE GoalLoop(cfg, years, target_amount,
                  GoalYear(cfg, years, target_amount, st))

\* the DataFrame the call returns, or the exception it ends in: a horizon of
\* zero divides by zero in the annuity formula, a target of zero in the first
\* year's progress; a negative horizon leaves the loop empty
calculate_goal_investment(cfg, years, target_amount) ==
    IF years = 0 THEN [error |-> "ZeroDivisionError", data |-> None]
    ELSE IF years < 0 THEN [error |-> NoError, data |-> <<>>]
    ELSE IF target_amount = Zero
    THEN [error |-> "ZeroDivisionError", data |-> None]
    ELSE [error |-> NoError,
          data  |-> GoalLoop(cfg, years, target_amount,
                             GoalStart(cfg, years, target_amount))]

\* ------------------------------------------------------------------------
\* calculate_flat_monthly_investment and create_summary_sheet
\* ------------------------------------------------------------------------
\* the future value after the given years of a monthly amount that grows by
\* step_pct a year (0 for a flat amount)
RECURSIVE FutureValueLoop(_, _, _)
FutureValueLoop(st, return_pct, step_pct) ==
    IF st.years <= 0 THEN st.corpus
    ELSE FutureValueLoop(
             [corpus  |-> Grow(MAdd(st.corpus, MMulI(st.monthly, 12)),
                               return_pct),
              monthly |-> Grow(st.monthly, step_pct),
              years   |-> st.years - 1],
             return_pct, step_pct)

FutureValue(monthly, years, return_pct, step_pct) ==
    FutureValueLoop([corpus |-> Zero, monthly |-> monthly, years |-> years],
                    return_pct, step_pct)

\* a halving that moves the left end only half of the way to mid
FlatHalveShort(iv, mid, step_up_corpus, years, return_pct) ==
    IF MLt(FutureValue(mid, years, return_pct, 0), step_up_corpus)
    THEN [left |-> MDivI(MAdd(iv.left, mid), 2), right |-> iv.right]
    ELSE [left |-> iv.left, right |-> mid]

\* one halving of the search interval: mid replaces the end that lies on
\* its side of the target
FlatHalve(iv, mid, step_up_corpus, years, return_pct) ==
    IF MLt(FutureValue(mid, years, return_pct, 0), step_up_corpus)
    THEN [left |-> mid, right |-> iv.right]
    ELSE [left |-> iv.left, right |-> mid]

\* the binary search loop, "while right - left > 1"
RECURSIVE FlatSearch(_, _, _, _)
FlatSearch(iv, step_up_corpus, years, return_pct) ==
    IF ~MLt(M(1), MSub(iv.right, iv.left))
    THEN MDivI(MAdd(iv.left, iv.right), 2)
    ELSE FlatSearch(FlatHalve(iv, MDivI(MAdd(iv.left, iv.right), 2),
                              step_up_corpus, years, return_pct),
                    step_up_corpus, years, return_pct)

calculate_flat_monthly_investment(step_up_monthly, years, return_pct, step_pct) ==
    FlatSearch([left |-> step_up_monthly, right |-> MMulI(step_up_monthly, 2)],
               FutureValue(step_up_monthly, years, return_pct, step_pct),
               years, return_pct)

RECURSIVE MSum(_)
MSum(seq) == IF seq = <<>> THEN Zero ELSE MAdd(Head(seq), MSum(Tail(seq)))

\* the amounts of the summary once the totals are known
SummaryAmounts(inp, retirement_monthly, flat_retirement_monthly, goal_monthlies, flat_goal_monthlies, total_monthly_required, total_flat_monthly_required, outflow, final_corpus, years) ==
    [retirement_monthly          |-> retirement_monthly,
     flat_retirement_monthly     |-> flat_retirement_monthly,
     goal_monthlies              |-> goal_monthlies,
     flat_goal_monthlies         |-> flat_goal_monthlies,
     total_monthly_required      |-> total_monthly_required,
     total_flat_monthly_required |-> total_flat_monthly_required,
     monthly_surplus             |->
         MSub(MSub(M(inp.monthly_in_hand), total_monthly_required), outflow),
     flat_monthly_surplus        |->
         MSub(MSub(M(inp.monthly_in_hand), total_flat_monthly_required),
              outflow),
     final_retirement_corpus     |-> final_corpus,
     present_value               |->
         MMulDiv(final_corpus, One, Power(expense_inflation_rate, years))]

SummaryTotals(inp, retirement_monthly, flat_retirement_monthly, goal_monthlies, flat_goal_monthlies, final_corpus, years) ==
    SummaryAmounts(inp, retirement_monthly, flat_retirement_monthly,
                   goal_monthlies, flat_goal_monthlies,
                   MAdd(retirement_monthly, MSum(goal_monthlies)),
                   MAdd(flat_retirement_monthly, MSum(flat_goal_monthlies)),
                   M(inp.initial_monthly_expense + inp.monthly_emi),
                   final_corpus, years)

\* the amounts of the summary, before they are formatted
create_summary_sheet(inp, investment_monthly_investments, goal_monthlies, final_corpus, years) ==
    SummaryTotals(inp, investment_monthly_investments[1],
        calculate_flat_monthly_investment(investment_monthly_investments[1],
                                          years, rate_of_return,
                                          investment_step_up_rate),
        goal_monthlies,
        [i \in 1..Len(goal_monthlies) |->
            calculate_flat_monthly_investment(goal_monthlies[i],
                                              inp.goals[i].years,
                                              rate_of_return,
                                              investment_step_up_rate)],
        final_corpus, years)

\* ------------------------------------------------------------------------
\* main(data): validation and the requirement solver
\* ------------------------------------------------------------------------
Fail(message) ==
    /\ pc' = "failed"
    /\ result' = [success |-> FALSE, error |-> message]

\* main up to the call of determine_retirement_investment
MainGetInputs ==
    /\ pc = "main"
    /\ \E r \in {get_user_inputs_from_dict(data)} :
           IF r.error # NoError
           THEN /\ Fail(r.error)
                /\ UNCHANGED <<inputs, config, initial_investment>>
           ELSE /\ inputs' = r.inputs
                /\ config' = FinancialConfig(r.inputs)
                /\ initial_investment' = M(first_trial)
                /\ pc' = "solver"
                /\ UNCHANGED result
    /\ UNCHANGED <<planVars, flat, data, iterations, solver_df,
                   required_monthly_investment, rerunVars, allocVars, goalVars, summary,
                   plan_runs, goal_runs>>

\* one iteration of the loop of determine_retirement_investment
\* a trial whose projection starts from the profile's balances
SolverTrialWithBalances ==
    /\ pc = "solver"
    /\ iterations < max_iterations
    /\ \E df \in {calculate_retirement_plan(config, initial_investment,
                                            M(inputs.initial_pf_corpus),
                                            M(inputs.monthly_pf_contribution),
                                            M(inputs.initial_current_corpus))} :
           IF MLt(M(min_final_corpus), LastYearEndCorpus(df))
           THEN /\ solver_df' = df
                /\ required_monthly_investment' = initial_investment
                /\ pc' = "rerun"
                /\ UNCHANGED initial_investment
           ELSE /\ initial_investment' =
                       MAdd(initial_investment, M(trial_increment))
                /\ UNCHANGED <<pc, solver_df, required_monthly_investment>>
    /\ iterations' = iterations + 1
    /\ plan_runs' = plan_runs + 1
    /\ UNCHANGED <<planVars, flat, inputVars, result, rerunVars, allocVars,
                   goalVars, summary, goal_runs>>

SolverTrial ==
    /\ pc = "solver"
    /\ iterations < max_iterations
    /\ \E df \in {calculate_retirement_plan(config, initial_investment,
                                            Zero, Zero, Zero)} :
           IF MLt(M(min_final_corpus), LastYearEndCorpus(df))
           THEN /\ solver_df' = df
                /\ required_monthly_investment' = initial_investment
                /\ pc' = "rerun"
                /\ UNCHANGED initial_investment
           ELSE /\ initial_investment' =
                       MAdd(initial_investment, M(trial_increment))
                /\ UNCHANGED <<pc, solver_df, required_monthly_investment>>
    /\ iterations' = iterations + 1
    /\ plan_runs' = plan_runs + 1
    /\ UNCHANGED <<planVars, flat, inputVars, result, rerunVars, allocVars, goalVars, summary,
                   goal_runs>>

\* the loop ran out: the ValueError reaches main's handler
SolverRaise ==
    /\ pc = "solver"
    /\ iterations = max_iterations
    /\ Fail("Could not find suitable investment amount within iterations limit")
    /\ UNCHANGED <<planVars, flat, inputVars, solverVars, rerunVars, allocVars,
                   goalVars, summary, plan_runs, goal_runs>>

\* main between the solver and the allocation solver: the corpus handed on,
\* the re-run with the profile's balances, and the call of
\* calculate_investment_allocation up to its first pass
MainRerun ==
    /\ pc = "rerun"
    /\ final_retirement_corpus' =
           solver_df[last_valid_index(solver_df)].TotalCorpus
    /\ years_to_retirement' = inputs.retirement_age - inputs.initial_age
    /\ retirement_df' =
           calculate_retirement_plan(config, required_monthly_investment,
                                     M(inputs.initial_pf_corpus),
                                     M(inputs.monthly_pf_contribution),
                                     M(inputs.initial_current_corpus))
    /\ plan_runs' = plan_runs + 1
    /\ alloc_args' = [monthly_investment |-> required_monthly_investment,
                      target_corpus      |-> final_retirement_corpus']
    /\ investment_multiplier' = One
    /\ iteration' = 0
    /\ pc' = "alloc"
    /\ UNCHANGED <<planVars, flat, inputVars, result, solverVars, alloc_data,
                   monthly_investments, goalVars, summary, goal_runs>>

\* a multiplier tuned the wrong way round: lowered when the progress is low
DetunedMultiplier(multiplier, final_corpus_progress) ==
    IF MLt(final_corpus_progress, progress_low)
    THEN MPct(multiplier, 95)
    ELSE MPct(multiplier, 105)

\* the fine-tuning of the multiplier after a pass that did not break
TunedMultiplier(multiplier, final_corpus_progress) ==
    IF MLt(final_corpus_progress, progress_low)
    THEN MPct(multiplier, 105)
    ELSE MPct(multiplier, 95)

\* one pass of the loop of calculate_investment_allocation; the function
\* returns after a pass that breaks and after the last pass
AllocPass ==
    /\ pc = "alloc"
    /\ iteration < MAX_ITERATIONS
    /\ \E p \in {AllocationPass(config, alloc_args.monthly_investment,
                                 alloc_args.target_corpus,
                                 investment_multiplier)} :
       \E final_corpus_progress \in {p.data[Len(p.data)].CorpusProgress} :
           /\ alloc_data' = p.data
           /\ monthly_investments' = p.monthly_investments
           /\ IF /\ MLe(progress_low, final_corpus_progress)
                 /\ MLe(final_corpus_progress, progress_high)
              THEN /\ UNCHANGED investment_multiplier
                   /\ pc' = "goals"
              ELSE /\ investment_multiplier' =
                          TunedMultiplier(investment_multiplier,
                                          final_corpus_progress)
                   /\ pc' = IF iteration + 1 = MAX_ITERATIONS
                            THEN "goals" ELSE "alloc"
    /\ iteration' = iteration + 1
    /\ UNCHANGED <<planVars, flat, inputVars, result, solverVars, rerunVars,
                   alloc_args, goalVars, summary, plan_runs, goal_runs>>

\* one iteration of the goal loop of main
MainGoal ==
    /\ pc = "goals"
    /\ Len(goal_dfs) < Len(inputs.goals)
    /\ \E goal \in {inputs.goals[Len(goal_dfs) + 1]} :
       \E r \in {calculate_goal_investment(config, goal.years,
                                           M(goal.amount))} :
           IF r.error # NoError
           THEN /\ Fail(r.error)
                /\ UNCHANGED goalVars
           ELSE IF r.data = <<>>
           THEN /\ Fail("KeyError")
                /\ UNCHANGED goalVars
           ELSE /\ goal_dfs' = Append(goal_dfs, r.data)
                /\ goal_monthly_investments' =
                       Append(goal_monthly_investments,
                              r.data[1].MonthlyInvestment)
                /\ UNCHANGED <<pc, result>>
    /\ goal_runs' = goal_runs + 1
    /\ UNCHANGED <<planVars, flat, inputVars, solverVars, rerunVars, allocVars,
                   summary, plan_runs>>

\* main after the goal loop: the summary and the report; writing the report
\* is left to the reporting collaborator and either succeeds or fails
MainSummary ==
    /\ pc = "goals"
    /\ Len(goal_dfs) = Len(inputs.goals)
    /\ summary' = create_summary_sheet(inputs, monthly_investments,
                                       goal_monthly_investments,
                                       final_retirement_corpus,
                                       years_to_retirement)
    /\ \E report_created \in BOOLEAN :
          IF report_created
          THEN /\ pc' = "done"
               /\ result' =
                      [success |-> TRUE,
                       required_monthly_investment |->
                           required_monthly_investment,
                       goal_monthly_investments |-> goal_monthly_investments,
                       final_retirement_corpus |-> final_retirement_corpus]
          ELSE /\ pc' = "failed"
               /\ result' = [success |-> FALSE,
                             message |-> "Failed to create the Excel report."]
    /\ UNCHANGED <<planVars, flat, inputVars, solverVars, rerunVars, allocVars,
                   goalVars, plan_runs, goal_runs>>

MainInit ==
    /\ data \in Dicts
    /\ pc = "main"
    /\ plan_cfg = None /\ plan_args = None /\ plan = None /\ flat = None
    /\ inputs = None /\ config = None /\ result = None
    /\ initial_investment = None /\ iterations = 0 /\ solver_df = None
    /\ required_monthly_investment = None
    /\ final_retirement_corpus = None /\ years_to_retirement = None
    /\ retirement_df = None
    /\ alloc_args = None /\ iteration = 0 /\ investment_multiplier = None
    /\ alloc_data = None /\ monthly_investments = None
    /\ goal_dfs = <<>> /\ goal_monthly_investments = <<>> /\ summary = None
    /\ plan_runs = 0 /\ goal_runs = 0

Next ==
    \/ MainGetInputs
    \/ SolverTrial
    \/ SolverRaise
    \/ MainRerun
    \/ AllocPass
    \/ MainGoal
    \/ MainSummary

Spec == MainInit /\ [][Next]_vars

\* ------------------------------------------------------------------------
\* calculate_investment_allocation called on its own
\* ------------------------------------------------------------------------
\* the longest span from the current age to the retirement age
AllocHorizon == 2

AllocAges == {<<a, a + h>> : a \in {24, 44, 77}, h \in 1 .. AllocHorizon}
AllocMonthlyInvestments == {5000, 15000}
\* the target corpus, in multiples of the monthly investment
AllocTargetMonths == {20, 30, 40, 44, 48, 52, 60, 400}

AllocInit ==
    /\ \E a \in AllocAges :
          config = FinancialConfig([initial_age |-> a[1],
                                    retirement_age |-> a[2],
                                    life_expectancy |-> default_life_expectancy,
                                    initial_monthly_expense |-> 12000])
    /\ \E m \in AllocMonthlyInvestments, t \in AllocTargetMonths :
          alloc_args = [monthly_investment |-> M(m),
                        target_corpus      |-> M(m * t)]
    /\ investment_multiplier = One
    /\ iteration = 0
    /\ pc = "alloc"
    /\ plan_cfg = None /\ plan_args = None /\ plan = None /\ flat = None
    /\ data = None /\ inputs = None /\ result = None
    /\ initial_investment = None /\ iterations = 0 /\ solver_df = None
    /\ required_monthly_investment = None
    /\ final_retirement_corpus = None /\ years_to_retirement = None
    /\ retirement_df = None
    /\ alloc_data = None /\ monthly_investments = None
    /\ goal_dfs = <<>> /\ goal_monthly_investments = <<>> /\ summary = None
    /\ plan_runs = 0 /\ goal_runs = 0

AllocNext == AllocPass

SpecAlloc == AllocInit /\ [][AllocNext]_vars

\* ---------------------------------------------------------------------
\* calculate_flat_monthly_investment alone, one halving of its binary
\* search per step
\* ---------------------------------------------------------------------

FlatYears == 3

\* step-up contributions in hundredths of a currency unit: none, below one
\* unit, one unit, around powers of two, and the amounts the engines emit
FlatStepUpMonthlies ==
    {Norm(0, c) : c \in {0, 50, 100, 101, 200, 300, 102400, 102401, 102500,
                         819200, 819300, 50000, 100000, 500000, 700000,
                         1500000}}

FlatReturns == {8, 12}

\* the locals after "left, right = step_up_monthly, step_up_monthly * 2"
FlatStart(step_up_monthly, years, return_pct, step_pct) ==
    [step_up_monthly |-> step_up_monthly,
     years           |-> years,
     return_pct      |-> return_pct,
     step_up_corpus  |-> FutureValue(step_up_monthly, years, return_pct,
                                     step_pct),
     left            |-> step_up_monthly,
     right           |-> MMulI(step_up_monthly, 2),
     halvings        |-> 0,
     returned        |-> None]

FlatInit ==
    /\ \E s \in FlatStepUpMonthlies, y \in 0 .. FlatYears, r \in FlatReturns :
          flat = FlatStart(s, y, r, investment_step_up_rate)
    /\ plan_cfg = None /\ plan_args = None /\ plan = None
    /\ Idle

\* one iteration of "while right - left > 1"
FlatStep ==
    /\ flat # None
    /\ flat.returned = None
    /\ MLt(M(1), MSub(flat.right, flat.left))
    /\ \E iv \in {FlatHalve([left |-> flat.left, right |-> flat.right],
                             MDivI(MAdd(flat.left, flat.right), 2),
                             flat.step_up_corpus, flat.years,
                             flat.return_pct)} :
          flat' = [flat EXCEPT !.left = iv.left, !.right = iv.right,
                               !.halvings = @ + 1]
    /\ UNCHANGED <<planVars, pc, inputVars, result, solverVars, rerunVars,
                   allocVars, goalVars, summary, plan_runs, goal_runs>>

\* the loop exit and "return (left + right) / 2"
FlatReturn ==
    /\ flat # None
    /\ flat.returned = None
    /\ ~MLt(M(1), MSub(flat.right, flat.left))
    /\ flat' = [flat EXCEPT
                   !.returned = <<MDivI(MAdd(flat.left, flat.right), 2)>>]
    /\ UNCHANGED <<planVars, pc, inputVars, result, solverVars, rerunVars,
                   allocVars, goalVars, summary, plan_runs, goal_runs>>

FlatNext == FlatStep \/ FlatReturn

\* a step of the call is possible exactly until it has returned
FlatRunning == flat # None /\ flat.returned = None

\* weak fairness of FlatNext, with its enabling condition written out: the
\* loop body and the return always run when they can
SpecFlat ==
    /\ FlatInit
    /\ [][FlatNext]_vars
    /\ ([]<>(~FlatRunning) \/ []<><<FlatNext>>_vars)

\* ------------------------------------------------------------------------
\* Properties
\* ------------------------------------------------------------------------
\* the whole currency units of a non-negative amount
Units(a) == (a[1] * (Base \div Scale)) + (a[2] \div Scale)

\* the last row's 'Retirement Year-End Corpus' of the zero-balance projection
FinalCorpus(cfg, v) ==
    LastYearEndCorpus(calculate_retirement_plan(cfg, v, Zero, Zero, Zero))

Qualifies(cfg, v) == MLt(M(100000), FinalCorpus(cfg, v))

SolverReturned == required_monthly_investment # None

\* C1: what determine_retirement_investment returns is a value 5000 + 1000*k,
\* its zero-balance projection ends with a year-end corpus strictly above
\* 100000, and no smaller value of 5000, 6000, 7000, ... does so.
C1_SmallestQualifyingTrial ==
    SolverReturned =>
        /\ MLe(M(5000), required_monthly_investment)
        /\ required_monthly_investment =
               M(5000 + (1000 * ((Units(required_monthly_investment) - 5000)
                                     \div 1000)))
        /\ Qualifies(config, required_monthly_investment)
        /\ \A k \in 0 .. (((Units(required_monthly_investment) - 5000)
                              \div 1000) - 1) :
               ~Qualifies(config, M(5000 + (1000 * k)))

C1_Witness ==
    /\ SolverReturned
    /\ MLt(M(5000), required_monthly_investment)
    /\ Qualifies(config, required_monthly_investment)

\* C2: while the solver runs, the trial in hand after n projection runs is
\* 5000 + 1000*n, one run per trial; once it has returned v it has made
\* exactly (v - 5000)/1000 + 1 runs and the trial never moved past v.
C2_OneRunPerTrialInOrder ==
    /\ pc = "solver" =>
           /\ initial_investment = M(5000 + (1000 * iterations))
           /\ plan_runs = iterations
    /\ SolverReturned =>
           /\ initial_investment = required_monthly_investment
           /\ iterations =
                  ((Units(required_monthly_investment) - 5000) \div 1000) + 1
           /\ pc = "rerun" => plan_runs = iterations
           /\ pc # "rerun" => plan_runs = iterations + 1

C2_Witness ==
    /\ SolverReturned
    /\ pc = "rerun"
    /\ iterations > 3
    /\ plan_runs = iterations

SolverError ==
    /\ result # None
    /\ ~result.success
    /\ "error" \in DOMAIN result
    /\ result.error =
           "Could not find suitable investment amount within iterations limit"

\* C3: the solver's error comes after exactly 100000 trials, none of which
\* qualified, with no trajectory and no contribution returned and nothing
\* run after it; a solver that has used up its 100000 trials without a
\* qualifying one has returned nothing and can only end in that error.
C3_ExhaustionIsAnError ==
    /\ SolverError =>
           /\ pc = "failed"
           /\ iterations = 100000
           /\ plan_runs = 100000
           /\ initial_investment = M(5000 + (1000 * 100000))
           /\ solver_df = None
           /\ required_monthly_investment = None
           /\ final_retirement_corpus = None
           /\ iteration = 0
           /\ goal_runs = 0
    /\ (iterations = 100000 /\ ~SolverReturned) =>
           /\ solver_df = None
           /\ pc = "solver" \/ SolverError
    /\ SolverReturned => solver_df # None

C3_Witness ==
    /\ SolverError
    /\ iterations = 100000
    /\ required_monthly_investment = None

\* C4 (as stated): in every year of every projection run each of the three
\* corpus buckets is non-negative.
C4_BucketsNonNegative ==
    plan # None =>
        /\ MLe(Zero, plan.salary_corpus)
        /\ MLe(Zero, plan.pf_corpus)
        /\ MLe(Zero, plan.current_corpus)

\* C5 (as stated, for two neighbouring trials): with zero starting balances
\* the final year-end corpus for a trial is at most the one for the next
\* larger trial.
C5_FinalCorpusMonotone ==
    pc = "solver" =>
        MLe(FinalCorpus(config, initial_investment),
            FinalCorpus(config, MAdd(initial_investment, M(1000))))

RetirementRow(df) == df[(inputs.retirement_age - inputs.initial_age) + 1]

\* C6 (amended): the final retirement corpus handed to the allocation solver
\* and to the summary is the 'Total Corpus' of the retirement-age row of the
\* zero-balance projection the requirement solver returned.
C6_CorpusAtRetirement ==
    alloc_args # None =>
        /\ final_retirement_corpus # None
        /\ RetirementRow(solver_df).Age = inputs.retirement_age
        /\ final_retirement_corpus = RetirementRow(solver_df).TotalCorpus
        /\ alloc_args.target_corpus = final_retirement_corpus
        /\ summary # None =>
               summary.final_retirement_corpus = final_retirement_corpus

C6_Witness ==
    /\ summary # None
    /\ final_retirement_corpus = RetirementRow(solver_df).TotalCorpus
    /\ alloc_args.target_corpus = final_retirement_corpus
    /\ final_retirement_corpus # LastYearEndCorpus(solver_df)

\* C6 (as stated): the final retirement corpus is the 'Retirement Year-End
\* Corpus' of the last row (age = life expectancy) of the projection, be it
\* the solver's projection or the re-run with the profile's balances.
C6_TerminalYearEndCorpus ==
    alloc_args # None =>
        \/ final_retirement_corpus = LastYearEndCorpus(solver_df)
        \/ final_retirement_corpus = LastYearEndCorpus(retirement_df)

AccumulationShaped(row) ==
    /\ row.MonthlyInvestment # None
    /\ row.AnnualInvestment # None
    /\ row.SalaryCorpus # None
    /\ row.PFCorpus # None
    /\ row.CurrentCorpus # None
    /\ row.TotalCorpus # None
    /\ row.RetirementYearEndCorpus = None

DecumulationShaped(row) ==
    /\ row.MonthlyInvestment = None
    /\ row.AnnualInvestment = None
    /\ row.SalaryCorpus = None
    /\ row.PFCorpus = None
    /\ row.CurrentCorpus = None
    /\ row.TotalCorpus = None
    /\ row.RetirementYearEndCorpus # None

PlanReturned == plan # None /\ plan.age > plan_cfg.life_expectancy

\* C7: the rows of a projection are one per age, ascending from the current
\* age, life_expectancy - initial_age + 1 of them when the run returns; a row
\* of age <= retirement age has the contribution and bucket values and no
\* year-end corpus, a later row has a year-end corpus and none of those.
C7_OneRowPerAge ==
    plan # None =>
        /\ Len(plan.data) = plan.age - plan_cfg.initial_age
        /\ plan.age <= plan_cfg.life_expectancy + 1
        /\ PlanReturned =>
               Len(plan.data) =
                   (plan_cfg.life_expectancy - plan_cfg.initial_age) + 1
        /\ \A i \in 1 .. Len(plan.data) :
               /\ plan.data[i].Age = (plan_cfg.initial_age + i) - 1
               /\ IF plan.data[i].Age <= plan_cfg.retirement_age
                  THEN AccumulationShaped(plan.data[i])
                  ELSE DecumulationShaped(plan.data[i])

C7_Witness ==
    /\ PlanReturned
    /\ Len(plan.data) = 4
    /\ AccumulationShaped(plan.data[2])
    /\ plan.data[2].Age = plan_cfg.retirement_age
    /\ DecumulationShaped(plan.data[3])

\* the profile invariants, on the dict main() is given; the life expectancy
\* is 80
ViolatesProfileInvariant(d) ==
    \/ d.initial_age >= d.retirement_age
    \/ d.retirement_age >= 80
    \/ d.monthly_expenses <= 0
    \/ d.monthly_emi < 0
    \/ d.initial_pf_corpus < 0
    \/ d.monthly_pf_contribution < 0
    \/ d.initial_current_corpus < 0
    \/ d.monthly_expenses + d.monthly_emi > d.monthly_in_hand
    \/ d.monthly_pf_contribution > d.monthly_in_hand
    \/ Len(d.goals) < 1
    \/ Len(d.goals) > 10

NothingRun ==
    /\ plan_runs = 0
    /\ iterations = 0
    /\ iteration = 0
    /\ goal_runs = 0
    /\ solver_df = None
    /\ retirement_df = None
    /\ alloc_data = None
    /\ goal_dfs = <<>>

\* C8: on a profile that violates a profile invariant main() does nothing
\* but fail: no projection run, solver pass or goal simulation is ever
\* started, and once main() has moved its result is a failure.
C8_InvalidProfileFailsFirst ==
    ViolatesProfileInvariant(data) =>
        /\ NothingRun
        /\ pc \in {"main", "failed"}
        /\ pc = "main" => result = None
        /\ pc = "failed" => (result # None /\ ~result.success)

C8_Witness ==
    /\ ViolatesProfileInvariant(data)
    /\ pc = "failed"
    /\ ~result.success
    /\ NothingRun

HasBadGoal(d) ==
    \E i \in 1 .. Len(d.goals) :
        d.goals[i].years <= 0 \/ d.goals[i].amount <= 0

\* C9 (as stated): a plan with a goal of years <= 0 or amount <= 0 is
\* rejected before any simulation: no projection and no goal simulation
\* is run for it, and it does not end in success.
C9_BadGoalRejectedFirst ==
    HasBadGoal(data) =>
        /\ NothingRun
        /\ pc \in {"main", "failed"}

InBand(progress) ==
    MLe(Norm(0, 9990), progress) /\ MLe(progress, Norm(0, 10010))

FinalProgress(rows) == rows[Len(rows)].CorpusProgress

\* the scalars 0.70, 0.75, ..., 1.30, in hundredths
ScalarGrid == {70 + (5 * k) : k \in 0 .. 12}

\* some scalar of [0.7, 1.3] applied to the baseline contribution brings the
\* final year's progress into the band
RequiredScalarInRange(cfg, args) ==
    \E s \in ScalarGrid :
        InBand(FinalProgress(
                   AllocationPass(cfg, args.monthly_investment,
                                  args.target_corpus,
                                  Norm(0, s * (Base \div 100))).data))

AllocReturned == pc = "goals" /\ alloc_data # None

\* C10: when a scalar of [0.7, 1.3] reaches the target,
\* calculate_investment_allocation returns after fewer than 50 passes and
\* the final year's 'Corpus Progress %' of what it returns is in
\* [99.9, 100.1]; while it runs it has made fewer than 50 passes.
C10_ConvergesInFewerThan50 ==
    (alloc_args # None /\ RequiredScalarInRange(config, alloc_args)) =>
        /\ iteration < 50
        /\ AllocReturned => InBand(FinalProgress(alloc_data))

C10_Witness ==
    /\ AllocReturned
    /\ RequiredScalarInRange(config, alloc_args)
    /\ iteration > 2
    /\ iteration < 50
    /\ InBand(FinalProgress(alloc_data))
    /\ MLt(One, investment_multiplier)

\* the 50th pass has not converged and the call has returned
AllocGaveUp ==
    /\ AllocReturned
    /\ iteration = 50
    /\ ~InBand(FinalProgress(alloc_data))

\* C11: a call whose passes never reach the band returns after its 50th pass:
\* that pass, made with the multiplier the 49 earlier passes left, ends the
\* call with its rows and its monthly-contribution list and with no error; a
\* returned result that is out of the band comes from the 50th pass only, and
\* it has the shape of a converged one (one contribution per row).
C11_NonConvergedIsReturned ==
    /\ [](AllocReturned =>
            /\ result = None
            /\ Len(monthly_investments) = Len(alloc_data)
            /\ \A i \in 1 .. Len(alloc_data) :
                   monthly_investments[i] = alloc_data[i].MonthlyInvestment
            /\ ~InBand(FinalProgress(alloc_data)) => iteration = 50)
    /\ [][(pc = "alloc" /\ iteration = 49) =>
            /\ pc' = "goals"
            /\ iteration' = 50
            /\ result' = result
            /\ alloc_data' =
                   AllocationPass(config, alloc_args.monthly_investment,
                                  alloc_args.target_corpus,
                                  investment_multiplier).data
            /\ monthly_investments' =
                   AllocationPass(config, alloc_args.monthly_investment,
                                  alloc_args.target_corpus,
                                  investment_multiplier).monthly_investments]_vars

C11_Witness ==
    /\ AllocGaveUp
    /\ result = None
    /\ Len(alloc_data) > 1
    /\ monthly_investments[1] = alloc_data[1].MonthlyInvestment

\* C12 (as stated, for the retirement contribution of the summary): the
\* future value of the flat contribution calculate_flat_monthly_investment
\* returns, compounded like the step-up schedule, is within 1 currency unit
\* of the step-up schedule's future value.
C12_FlatRoundTripWithinOneUnit ==
    summary # None =>
        MLe(MAbs(MSub(FutureValue(summary.flat_retirement_monthly,
                                  years_to_retirement, rate_of_return, 0),
                      FutureValue(summary.retirement_monthly,
                                  years_to_retirement, rate_of_return,
                                  investment_step_up_rate))),
            M(1))

\* ---------------------------------------------------------------------
\* C13
\* ---------------------------------------------------------------------

\* the least n with s <= 2^n currency units: ceil(log2(s)) above one unit,
\* zero at or below it
RECURSIVE HalvingsFrom(_, _, _)
HalvingsFrom(s, n, power) ==
    IF MLe(s, M(power)) THEN n ELSE HalvingsFrom(s, n + 1, 2 * power)

CeilLog2(s) == HalvingsFrom(s, 0, 1)

FlatWidth(f) == MSub(f.right, f.left)

\* w2 is half of w1, to the last digit the amounts carry
IsHalf(w2, w1) == MLe(MAbs(MSub(MMulI(w2, 2), w1)), Norm(0, 1))

FlatReturned == flat # None /\ flat.returned # None

\* C13: the binary search of calculate_flat_monthly_investment terminates;
\* every iteration halves the width right - left, which starts at
\* s = step_up_monthly, so the loop exits after at most ceil(log2(s))
\* halvings (none when s <= 1) with a width of at most one currency unit.
C13_BinarySearchTerminates ==
    /\ [](flat # None =>
            /\ flat.halvings <= CeilLog2(flat.step_up_monthly)
            /\ flat.halvings = 0 => FlatWidth(flat) = flat.step_up_monthly
            /\ MLe(flat.step_up_monthly, M(1)) => flat.halvings = 0
            /\ flat.returned # None => MLe(FlatWidth(flat), M(1)))
    /\ [][(flat # None /\ flat.returned = None /\ flat'.returned = None) =>
            /\ flat'.halvings = flat.halvings + 1
            /\ IsHalf(FlatWidth(flat'), FlatWidth(flat))]_vars
    /\ (flat # None ~> FlatReturned)

C13_Witness ==
    /\ FlatReturned
    /\ flat.years > 0
    /\ flat.step_up_monthly = M(5000)
    /\ flat.halvings = 13
    /\ MLt(Zero, FlatWidth(flat))
    /\ flat.returned[1] =
           calculate_flat_monthly_investment(flat.step_up_monthly, flat.years,
                                             flat.return_pct,
                                             investment_step_up_rate)

\* ---------------------------------------------------------------------
\* C14
\* ---------------------------------------------------------------------

IsMultipleOf500(y) == y = MMulI(MMulI(MDivI(MDivI(y, Scale), 500), 500), Scale)

\* y is the smallest multiple of 500 that is >= m
IsLeastMultipleOf500(y, m) ==
    /\ IsMultipleOf500(y)
    /\ MLe(m, y)
    /\ MLt(MSub(y, M(500)), m)

\* contributions in hundredths of a currency unit, on and around multiples
\* of 500
RoundingInputs ==
    {Norm(0, c) : c \in {1, 99, 100, 49999, 50000, 50001, 50100, 61700,
                         99999, 100000, 100001, 525000, 551250, 1234567}}

CeilTo500IsLeastMultiple ==
    /\ CeilTo500(M(617)) = M(1000)
    /\ CeilTo500(M(500)) = M(500)
    /\ CeilTo500(M(501)) = M(1000)
    /\ \A m \in RoundingInputs : IsLeastMultipleOf500(CeilTo500(m), m)

\* the rows of a pass of the allocation solver: each contribution is the
\* previous one stepped up and rounded
AllocationRowsRounded(rows) ==
    /\ \A i \in 1 .. Len(rows) : IsMultipleOf500(rows[i].MonthlyInvestment)
    /\ \A i \in 1 .. Len(rows) - 1 :
           IsLeastMultipleOf500(rows[i + 1].MonthlyInvestment,
               Grow(rows[i].MonthlyInvestment, investment_step_up_rate))

\* the rows of the goal engine: each contribution is a twelfth of the
\* previous yearly amount stepped up, rounded
GoalRowsRounded(rows) ==
    /\ \A i \in 1 .. Len(rows) : IsMultipleOf500(rows[i].MonthlyInvestment)
    /\ \A i \in 1 .. Len(rows) - 1 :
           MLt(Zero, rows[i].MonthlyInvestment) =>
               IsLeastMultipleOf500(rows[i + 1].MonthlyInvestment,
                   MDivI(Grow(MMulI(rows[i].MonthlyInvestment, 12),
                              investment_step_up_rate), 12))

MaxAge == 100

MaxHorizon == 10

\* the weights of the allocation solver's policy, in percent, sum to 100
InvestmentWeightsSound(allocations) ==
    /\ \A a \in Assets : allocations[a] >= 0
    /\ allocations["Equity"] + allocations["Gold"]
         + allocations["RealEstate"] + allocations["Debt"] = 100

GoalWeightsSound(allocation) ==
    /\ \A a \in GoalAssets : allocation[a] >= 0
    /\ allocation["Equity"] + allocation["Gold"] + allocation["Debt"] = 100

PoliciesSound ==
    /\ \A age \in 0 .. MaxAge :
           InvestmentWeightsSound(get_age_based_allocation(age))
    /\ \A age \in 0 .. MaxAge, years \in -1 .. MaxHorizon :
           GoalWeightsSound(get_goal_allocation(age, years))

\* C15: for every age, and for goals every age and horizon, the weights the
\* investment-allocation policy and the goal-allocation policy return sum
\* to exactly 100% and none is negative; so do the weights in every row the
\* two engines emit.
C15_WeightsSumToOne ==
    /\ PoliciesSound
    /\ alloc_data # None =>
           \A i \in 1 .. Len(alloc_data) :
               /\ alloc_data[i].Allocation =
                      get_age_based_allocation(alloc_data[i].Age)
               /\ InvestmentWeightsSound(alloc_data[i].Allocation)
    /\ \A g \in 1 .. Len(goal_dfs) : \A i \in 1 .. Len(goal_dfs[g]) :
           /\ goal_dfs[g][i].Allocation =
                  get_goal_allocation(goal_dfs[g][i].Age,
                                      inputs.goals[g].years)
           /\ GoalWeightsSound(goal_dfs[g][i].Allocation)

C15_Witness ==
    /\ alloc_data # None
    /\ alloc_data[1].Age = 77
    /\ alloc_data[1].Allocation["Equity"] = 35
    /\ alloc_data[1].Allocation["Debt"] = 10
    /\ Len(goal_dfs) = 2
    /\ goal_dfs[1][1].Allocation["Gold"] = 50
    /\ goal_dfs[2][1].Allocation["Equity"] = 50

\* ---------------------------------------------------------------------
\* C16
\* ---------------------------------------------------------------------

NonNegativeStart ==
    /\ MLe(Zero, plan_args.initial_investment)
    /\ MLe(Zero, plan_args.monthly_pf_contribution)
    /\ MLe(Zero, plan_args.initial_pf_corpus)
    /\ MLe(Zero, plan_args.initial_current_corpus)

\* the bucket values of row i are not above those of row i + 1
BucketsNotBelow(later, earlier) ==
    /\ MLe(earlier.SalaryCorpus, later.SalaryCorpus)
    /\ MLe(earlier.PFCorpus, later.PFCorpus)
    /\ MLe(earlier.CurrentCorpus, later.CurrentCorpus)

\* C16: in the accumulation phase (age <= retirement age) of a projection
\* with non-negative contribution, PF contribution and starting balances,
\* each bucket value is non-decreasing from one year to the next, in the
\* running balances and in the rows.
C16_BucketsNonDecreasing ==
    /\ []((plan # None /\ NonNegativeStart) =>
            \A i \in 1 .. Len(plan.data) - 1 :
                plan.data[i + 1].Age <= plan_cfg.retirement_age =>
                    BucketsNotBelow(plan.data[i + 1], plan.data[i]))
    /\ [][(plan # None /\ NonNegativeStart
             /\ plan.age <= plan_cfg.retirement_age) =>
            /\ MLe(plan.salary_corpus, plan'.salary_corpus)
            /\ MLe(plan.pf_corpus, plan'.pf_corpus)
            /\ MLe(plan.current_corpus, plan'.current_corpus)]_vars

C16_Witness ==
    /\ plan # None
    /\ NonNegativeStart
    /\ Len(plan.data) >= 3
    /\ plan.data[3].Age <= plan_cfg.retirement_age
    /\ MLt(plan.data[2].SalaryCorpus, plan.data[3].SalaryCorpus)
    /\ MLt(plan.data[2].PFCorpus, plan.data[3].PFCorpus)
    /\ MLt(plan.data[2].CurrentCorpus, plan.data[3].CurrentCorpus)

\* ---------------------------------------------------------------------
\* C17
\* ---------------------------------------------------------------------

\* the monthly expense e after n years of 6% growth
RECURSIVE ExpenseAfter(_, _)
ExpenseAfter(e, n) == IF n <= 0 THEN e ELSE ExpenseAfter(Grow(e, 6), n - 1)

\* x and y differ by at most one currency unit
WithinOneUnit(x, y) == MLe(MAbs(MSub(x, y)), M(1))

\* C17: the snapshot at the current age shows the profile's initial monthly
\* expense and 12 times it as annual expense; the expense of each following
\* snapshot is the previous year's grown by 6%, in accumulation and
\* decumulation years alike, whatever the contribution and the balances.
C17_ExpenseGrowsSixPercent ==
    /\ [](plan # None =>
            /\ Len(plan.data) > 0 =>
                   /\ plan.data[1].MonthlyExpense =
                          plan_cfg.initial_monthly_expense
                   /\ plan.data[1].AnnualExpense =
                          MMulI(plan_cfg.initial_monthly_expense, 12)
            /\ \A i \in 1 .. Len(plan.data) :
                   /\ plan.data[i].MonthlyExpense =
                          round_currency(
                              ExpenseAfter(plan_cfg.initial_monthly_expense,
                                           i - 1))
                   /\ plan.data[i].AnnualExpense =
                          round_currency(MMulI(
                              ExpenseAfter(plan_cfg.initial_monthly_expense,
                                           i - 1), 12))
            /\ \A i \in 1 .. Len(plan.data) - 1 :
                   WithinOneUnit(plan.data[i + 1].MonthlyExpense,
                                 Grow(plan.data[i].MonthlyExpense, 6)))
    /\ [][(plan # None /\ plan.age <= plan_cfg.life_expectancy) =>
            /\ plan'.monthly_exp = Grow(plan.monthly_exp, 6)
            /\ plan'.annual_exp = MMulI(plan'.monthly_exp, 12)]_vars

C17_Witness ==
    /\ plan # None
    /\ MLt(Zero, plan_args.initial_investment)
    /\ MLt(Zero, plan_args.initial_current_corpus)
    /\ Len(plan.data) >= 4
    /\ plan.data[2].Age <= plan_cfg.retirement_age
    /\ plan.data[3].Age > plan_cfg.retirement_age
    /\ plan.data[1].MonthlyExpense = M(20000)
    /\ plan.data[1].AnnualExpense = M(240000)
    /\ plan.data[2].MonthlyExpense = M(21200)
    /\ plan.data[3].MonthlyExpense = M(22472)
    /\ plan.data[4].MonthlyExpense = M(23820)
    /\ plan.data[4].AnnualExpense = M(285844)

\* ---------------------------------------------------------------------
\* C18
\* ---------------------------------------------------------------------

\* the returns of row k of a goal table are those earned on the accumulated
\* total of row k - 1
ReturnsOnPreviousRow(rows, k) ==
    \A a \in GoalAssets :
        rows[k].Return[a] =
            AssetReturn(rows[k - 1].Accumulated, rows[k].Allocation[a],
                        returns[a])

\* C18: in the goal engine the per-asset returns of year k (k >= 2) are
\* computed on the accumulated total at the end of year k - 1, as in the
\* allocation solver; only the first year earns zero return.  Stated for
\* the goals of a positive target.
C18_GoalReturnsOnPreviousYear ==
    \A g \in 1 .. Len(goal_dfs) :
      inputs.goals[g].amount > 0 =>
        /\ \A a \in GoalAssets : goal_dfs[g][1].Return[a] = Zero
        /\ \A k \in 2 .. Len(goal_dfs[g]) :
               ReturnsOnPreviousRow(goal_dfs[g], k)

\* ---------------------------------------------------------------------
\* C19
\* ---------------------------------------------------------------------

\* ages on both sides of the bounds of the brackets
BracketAges == {0, 18, 34, 35, 36, 49, 50, 51, 77, MaxAge}

DebtOnly(w) == w = [Equity |-> 0, Gold |-> 0, Debt |-> 100]

EquityDebtSplit(w) == w["Equity"] > 0 /\ w["Gold"] = 0 /\ w["Debt"] > 0

EquityGoldDebtSplit(w) == w["Equity"] > 0 /\ w["Gold"] > 0 /\ w["Debt"] > 0

\* the oldest age of the bracket of age, for the brackets <= 35, <= 50 and
\* > 50
BracketTop(age) == IF age <= 35 THEN 35 ELSE IF age <= 50 THEN 50 ELSE MaxAge

\* horizons above the Debt-only ones: an Equity/Debt split up to five years
\* that is chosen by age, an Equity/Gold/Debt split above, one per bracket
SplitsByAge ==
    /\ \A age \in BracketAges, years \in 4 .. 5 :
           /\ EquityDebtSplit(get_goal_allocation(age, years))
           /\ get_goal_allocation(age, years) = get_goal_allocation(age, 4)
    /\ get_goal_allocation(35, 4) # get_goal_allocation(36, 4)
    /\ \A age \in BracketAges, years \in 6 .. MaxHorizon :
           /\ EquityGoldDebtSplit(get_goal_allocation(age, years))
           /\ get_goal_allocation(age, years)
                  = get_goal_allocation(BracketTop(age), 6)
    /\ get_goal_allocation(35, 6) # get_goal_allocation(50, 6)
    /\ get_goal_allocation(50, 6) # get_goal_allocation(51, 6)
    /\ get_goal_allocation(35, 6) # get_goal_allocation(51, 6)

\* C19 (amended): the goal allocation policy returns 100% Debt for horizons
\* of at most 3 years, exactly 3 included; horizons of 4 and 5 years get the
\* Equity/Debt split chosen by age, and horizons above 5 years the
\* Equity/Gold/Debt split chosen by age <= 35 / <= 50 / > 50.
C19_DebtOnlyUpToThreeYears ==
    /\ \A age \in BracketAges, years \in -1 .. MaxHorizon :
           DebtOnly(get_goal_allocation(age, years)) <=> years <= 3
    /\ SplitsByAge
    /\ \A g \in 1 .. Len(goal_dfs) : \A i \in 1 .. Len(goal_dfs[g]) :
           DebtOnly(goal_dfs[g][i].Allocation) <=> inputs.goals[g].years <= 3

C19_Witness ==
    /\ Len(goal_dfs) > 0
    /\ inputs.goals[1].years = 3
    /\ Len(goal_dfs[1]) = 3
    /\ \A i \in 1 .. 3 : DebtOnly(goal_dfs[1][i].Allocation)
    /\ goal_dfs[1][3].Return["Debt"] # Zero

\* C19 (as stated): 100% Debt only for horizons strictly below 3 years; a
\* horizon of exactly 3 years gets the Equity/Debt split chosen by age, like
\* 4 and 5 years.
C19_DebtOnlyBelowThreeYears ==
    /\ \A age \in BracketAges, years \in -1 .. MaxHorizon :
           DebtOnly(get_goal_allocation(age, years)) <=> years < 3
    /\ \A age \in BracketAges :
           /\ EquityDebtSplit(get_goal_allocation(age, 3))
           /\ get_goal_allocation(age, 3) = get_goal_allocation(age, 4)
    /\ \A g \in 1 .. Len(goal_dfs) : \A i \in 1 .. Len(goal_dfs[g]) :
           DebtOnly(goal_dfs[g][i].Allocation) <=> inputs.goals[g].years < 3

\* ---------------------------------------------------------------------
\* C20
\* ---------------------------------------------------------------------

SearchCap == 50

\* the profile with no PF balance, no PF contribution and no pre-existing
\* balance
WithoutBalances(inp) ==
    [inp EXCEPT !.initial_pf_corpus = 0, !.monthly_pf_contribution = 0,
                !.initial_current_corpus = 0]

HasBalances(inp) ==
    /\ inp.initial_pf_corpus > 0
    /\ inp.monthly_pf_contribution > 0
    /\ inp.initial_current_corpus > 0

\* the first of v, v + 1000, ... whose zero-balance projection qualifies,
\* among n trials
RECURSIVE RequiredFrom(_, _, _)
RequiredFrom(cfg, v, n) ==
    IF n <= 0 THEN None
    ELSE IF Qualifies(cfg, v) THEN v
    ELSE RequiredFrom(cfg, MAdd(v, M(1000)), n - 1)

\* C20: the contribution the requirement solver returns does not depend on
\* the profile's initial PF balance, monthly PF contribution or pre-existing
\* balance: it is the one found for the same profile without them, and so
\* is the solver's projection; those fields enter only the single re-run.
C20_RequiredIgnoresBalances ==
    SolverReturned =>
        /\ config = FinancialConfig(WithoutBalances(inputs))
        /\ required_monthly_investment =
               RequiredFrom(FinancialConfig(WithoutBalances(inputs)),
                            M(5000), SearchCap)
        /\ solver_df =
               calculate_retirement_plan(
                   FinancialConfig(WithoutBalances(inputs)),
                   required_monthly_investment, Zero, Zero, Zero)
        /\ IF retirement_df = None
           THEN plan_runs = iterations
           ELSE /\ plan_runs = iterations + 1
                /\ retirement_df =
                       calculate_retirement_plan(config,
                           required_monthly_investment,
                           M(inputs.initial_pf_corpus),
                           M(inputs.monthly_pf_contribution),
                           M(inputs.initial_current_corpus))
                /\ final_retirement_corpus =
                       solver_df[last_valid_index(solver_df)].TotalCorpus

C20_Witness ==
    /\ SolverReturned
    /\ HasBalances(inputs)
    /\ MLt(M(5000), required_monthly_investment)
    /\ retirement_df # None
    /\ retirement_df # solver_df
    /\ MLt(final_retirement_corpus,
           retirement_df[last_valid_index(retirement_df)].TotalCorpus)

\* ---------------------------------------------------------------------
\* C21
\* ---------------------------------------------------------------------

\* 100.00, in hundredths of a percent
FullProgress == Norm(0, 100 * 100)

\* C21: in every row of every pass of calculate_investment_allocation the
\* accumulated total is <= the target corpus and 'Corpus Progress %' is
\* <= 100; within a pass the accumulated total is non-decreasing from one
\* age to the next, and once it reaches the target it stays equal to the
\* target for all later ages of the pass.
C21_ClampedAtTarget ==
    alloc_data # None =>
        /\ \A i \in 1 .. Len(alloc_data) :
               /\ alloc_data[i].TargetCorpus =
                      round_currency(alloc_args.target_corpus)
               /\ MLe(alloc_data[i].Accumulated, alloc_data[i].TargetCorpus)
               /\ MLe(alloc_data[i].CorpusProgress, FullProgress)
        /\ \A i \in 1 .. Len(alloc_data) - 1 :
               /\ MLe(alloc_data[i].Accumulated,
                      alloc_data[i + 1].Accumulated)
               /\ alloc_data[i].Accumulated = alloc_data[i].TargetCorpus =>
                      alloc_data[i + 1].Accumulated
                          = alloc_data[i + 1].TargetCorpus

C21_Witness ==
    /\ alloc_data # None
    /\ Len(alloc_data) = 3
    /\ MLt(alloc_data[1].Accumulated, alloc_data[1].TargetCorpus)
    /\ alloc_data[2].Accumulated = alloc_data[2].TargetCorpus
    /\ alloc_data[3].Accumulated = alloc_data[3].TargetCorpus
    /\ alloc_data[3].CorpusProgress = FullProgress

\* ---------------------------------------------------------------------
\* C22
\* ---------------------------------------------------------------------

\* the total corpus of the running balances st
TotalOf(st) == MAdd(MAdd(st.salary_corpus, st.pf_corpus), st.current_corpus)

\* x and y agree up to the rounding of the last digit of the three buckets
Near(x, y) == MLe(MAbs(MSub(x, y)), Norm(0, 10))

\* bucket after is bucket before times (1 - E/T) times 1.06, and its share
\* of the total is the one it had
BucketWithdrawn(after, before, E, T, total_after) ==
    /\ after = MPct(MMulDiv(before, MSub(T, E), T), 106)
    /\ Near(after, MMulDiv(total_after, before, T))

InDecumulation ==
    /\ plan # None
    /\ plan.age > plan_cfg.retirement_age
    /\ plan.age <= plan_cfg.life_expectancy

\* C22: in a decumulation year with total corpus T > 0 and annual expense E
\* every bucket is multiplied by (1 - E/T) and then by 1.06, so the year-end
\* total is (T - E) * 1.06 and the buckets keep their proportions; when
\* T = 0 the withdrawal is skipped, only the growth is applied and all
\* buckets stay at zero.
C22_ProportionalWithdrawal ==
    [][InDecumulation =>
         /\ plan'.data[Len(plan'.data)].RetirementYearEndCorpus =
                round_currency(TotalOf(plan'))
         /\ MLt(Zero, TotalOf(plan)) =>
                /\ Near(TotalOf(plan'),
                        MPct(MSub(TotalOf(plan), plan.annual_exp), 106))
                /\ BucketWithdrawn(plan'.salary_corpus, plan.salary_corpus,
                                   plan.annual_exp, TotalOf(plan),
                                   TotalOf(plan'))
                /\ BucketWithdrawn(plan'.pf_corpus, plan.pf_corpus,
                                   plan.annual_exp, TotalOf(plan),
                                   TotalOf(plan'))
                /\ BucketWithdrawn(plan'.current_corpus, plan.current_corpus,
                                   plan.annual_exp, TotalOf(plan),
                                   TotalOf(plan'))
         /\ TotalOf(plan) = Zero =>
                /\ plan.salary_corpus = Zero /\ plan'.salary_corpus = Zero
                /\ plan.pf_corpus = Zero /\ plan'.pf_corpus = Zero
                /\ plan.current_corpus = Zero /\ plan'.current_corpus = Zero
                /\ TotalOf(plan') = Zero]_vars

C22_Witness ==
    /\ plan # None
    /\ Len(plan.data) > 1
    /\ plan.data[Len(plan.data)].Age > plan_cfg.retirement_age
    /\ MLt(Zero, plan.data[Len(plan.data)].RetirementYearEndCorpus)
    /\ MLt(Zero, plan.salary_corpus)
    /\ MLt(Zero, plan.pf_corpus)
    /\ MLt(Zero, plan.current_corpus)
    /\ plan.data[Len(plan.data)].RetirementYearEndCorpus =
           round_currency(TotalOf(plan))

\* ---------------------------------------------------------------------
\* C23
\* ---------------------------------------------------------------------

\* the total return of a row of a goal table
GoalRowReturn(row) ==
    MAdd(MAdd(row.Return["Equity"], row.Return["Gold"]), row.Return["Debt"])

\* the accumulated total of row k is that of row k - 1 (nothing before the
\* first row) plus the year's investment and total return
GoalRowAccumulates(rows, k) ==
    rows[k].Accumulated =
        MAdd(IF k = 1 THEN Zero ELSE rows[k - 1].Accumulated,
             MAdd(rows[k].YearlyInvestment, GoalRowReturn(rows[k])))

\* C23: the goal engine never clamps: for a goal of horizon n it emits
\* exactly n rows, of the ages initial_age .. initial_age + n - 1; each
\* row's accumulated total is the previous row's plus that year's investment
\* plus that year's total return, so the total may exceed the target and
\* 'Corpus Progress %' may exceed 100.
C23_GoalNeverClamps ==
    \A g \in 1 .. Len(goal_dfs) :
        /\ Len(goal_dfs[g]) = inputs.goals[g].years
        /\ \A k \in 1 .. Len(goal_dfs[g]) :
               /\ goal_dfs[g][k].Age = (inputs.initial_age + k) - 1
               /\ goal_dfs[g][k].TargetCorpus = M(inputs.goals[g].amount)
               /\ GoalRowAccumulates(goal_dfs[g], k)
               /\ goal_dfs[g][k].CorpusProgress =
                      PercentOf(goal_dfs[g][k].Accumulated,
                                goal_dfs[g][k].TargetCorpus)

C23_Witness ==
    /\ Len(goal_dfs) > 0
    /\ inputs.goals[1].years = 3
    /\ Len(goal_dfs[1]) = 3
    /\ goal_dfs[1][3].TargetCorpus = M(100000)
    /\ goal_dfs[1][2].Accumulated = M(78000)
    /\ goal_dfs[1][3].Accumulated = M(128880)
    /\ MLt(FullProgress, goal_dfs[1][3].CorpusProgress)

\* ---------------------------------------------------------------------
\* C24
\* ---------------------------------------------------------------------

\* the accumulated total of some year of the pass was held at the target
ClampHit(rows) ==
    \E i \in 1 .. Len(rows) : rows[i].Accumulated = rows[i].TargetCorpus

\* C24: across the passes of one calculate_investment_allocation call the
\* investment multiplier never decreases: no pass ends with a progress above
\* 100.1, so a pass either ends the search or multiplies the multiplier by
\* 1.05, never by 0.95; a pass in which the clamp is hit in any year ends
\* the search as converged.
C24_MultiplierNeverDecreases ==
    /\ [](alloc_data # None =>
            /\ MLe(FinalProgress(alloc_data), Norm(0, 10010))
            /\ ClampHit(alloc_data) =>
                   /\ InBand(FinalProgress(alloc_data))
                   /\ pc # "alloc")
    /\ [][pc = "alloc" =>
            /\ MLe(investment_multiplier, investment_multiplier')
            /\ \/ /\ pc' = "goals"
                  /\ InBand(FinalProgress(alloc_data'))
                  /\ investment_multiplier' = investment_multiplier
               \/ /\ MLt(FinalProgress(alloc_data'), Norm(0, 9990))
                  /\ investment_multiplier' =
                         MPct(investment_multiplier, 105)]_vars

C24_Witness ==
    /\ AllocReturned
    /\ iteration > 3
    /\ MLt(One, investment_multiplier)
    /\ ClampHit(alloc_data)
    /\ FinalProgress(alloc_data) = FullProgress

\* ---------------------------------------------------------------------
\* C25
\* ---------------------------------------------------------------------

\* the number of rows of a projection in which a contribution is credited
CreditedYears(df) ==
    Cardinality({i \in 1 .. Len(df) : df[i].MonthlyInvestment # None})

\* C25 (as stated): for the retirement run the duration over which the flat
\* solver compounds the step-up schedule equals the number of years in which
\* the projection engine and the allocation solver credit a contribution,
\* one per age from the current age to the retirement age inclusive.
C25_FlatDurationIsCreditedYears ==
    summary # None =>
        /\ CreditedYears(retirement_df) =
               (inputs.retirement_age - inputs.initial_age) + 1
        /\ Len(alloc_data) = CreditedYears(retirement_df)
        /\ Len(monthly_investments) = CreditedYears(retirement_df)
        /\ summary.flat_retirement_monthly =
               calculate_flat_monthly_investment(summary.retirement_monthly,
                                                 years_to_retirement,
                                                 rate_of_return,
                                                 investment_step_up_rate)
        /\ years_to_retirement = CreditedYears(retirement_df)

====
